---- MODULE Spec2Model ----
(***************************************************************************)
(* Feature dispatch of packages/language-service/lib/utils/featureWorkers.ts *)
(* languageFeatureWorker / documentFeatureWorker, the embedding-tree walker *)
(* forEachEmbeddedDocument and the level view getEmbeddedFilesByLevel, the   *)
(* position helpers, the auto-insertion dispatch (register), and the jsDelivr *)
(* file system of packages/monaco/lib/ata.ts.                                *)
(***************************************************************************)
EXTENDS Integers, Sequences, FiniteSets, TLC

\* ------------------------------------------------------------------ bounds
\* largest number of VirtualCode nodes of a tree given to the walker and the level view
MaxNodes == 3
\* largest number of VirtualCode nodes of the tree of a dispatched document
MaxDocs == 2
\* number of entries of context.plugins
NumPlugins == 2
\* most parameter sets one eachVirtualDocParams generator yields
MaxParams == 2
\* most results accumulated in one call (length of the results array)
MaxResults == 2
\* most mutations of the disabled sets the host makes during one call
MaxHostOps == 1
\* largest level asked of getEmbeddedFilesByLevel
MaxLevel == 3
\* length, in characters, of the text of a document given to the position helpers
DocLength == 4
\* most mappings of the map given to the position helpers
MaxMappings == 2
\* file systems made by createJsDelivrNpmFileSystem in the process
NumInstances == 2
\* paths of the package that are asked for
NumFiles == 2
\* stat / readFile / readDirectory calls made in the process
MaxCalls == 2

VARIABLES
    scriptKind,                    \* context.language.scripts.get(uri): "absent" | "plain" | "generated"
    embeddedCodes,                 \* the tree: node -> sequence of its children (VirtualCode.embeddedCodes)
    entry,                         \* "language" (languageFeatureWorker) | "document" (documentFeatureWorker) | "autoInsert" (register)
    hasCombine,                    \* whether combineResult was supplied
    disabledServicePlugins,        \* context.disabledServicePlugins
    disabledEmbeddedDocumentUris,  \* keys of context.disabledEmbeddedDocumentUris with a truthy value
    disabledAtCall,                \* the two disabled sets as they were when the call was made
    hostOps,                       \* mutations of the disabled sets made by the host so far
    pc,                            \* position of the call
    walker,                        \* forEachEmbeddedDocument generator: nodes it has passed
    docs,                          \* loop variable docs (its node), 0 for the real document
    yielded,                       \* parameter sets pulled from the current eachVirtualDocParams generator
    mappedArg,                     \* loop variable mappedArg (index of the parameter set), 0 for getRealDocParams()
    pluginIndex,                   \* loop variable pluginIndex (1-based)
    pending,                       \* what the worker invocation being awaited does, "none" when none is
    thrown,                        \* the callback whose exception reached the async function, "none" if none did
    warned,                        \* whether safeCall caught (and console.warn logged) a failure of the latest invocation
    results,                       \* let results: T[]
    status,                        \* "running" | "fulfilled" | "rejected"
    returned,                      \* value the call resolved with
    emitted,                       \* nodes yielded by forEachEmbeddedDocument, in order
    workerCalls,                   \* worker invocations, in order: <<doc, param, plugin>>
    transformCalls,                \* the latest transformResult invocation: [at |-> its triple, out |-> what it returned]
    combineCalls,                  \* combineResult invocations, in order: the argument
    paramCalls,                    \* [real |-> getRealDocParams calls, virtual |-> docs eachVirtualDocParams was called with]
    validCalls,                    \* valid(docs) evaluations: <<doc, result>>
    fetched,                       \* context.documents.get / context.language.maps.get calls
    level,                         \* parameter level of getEmbeddedFilesByLevel
    embeddedFilesByLevel,          \* const embeddedFilesByLevel: VirtualCode[][]
    levelResult,                   \* value getEmbeddedFilesByLevel returned
    token,                         \* token.isCancellationRequested of an auto-insertion request
    providers,                     \* plugins whose instance has a provideAutoInsertionEdit
    provideCalls,                  \* provideAutoInsertionEdit invocations, in order: <<doc, param, plugin>>
    query,                         \* arguments of a getSourcePositions / getGeneratedPositions call
    positions,                     \* positions its generator has yielded, in order
    listing,                       \* the files the CDN's flat listing of the package reports
    textCache,                     \* const textCache: url of a file -> state of the cached promise
    jsonCache,                     \* const jsonCache: url -> state of the cached promise
    httpFetches,                   \* fetch(url) calls made so far, per url
    flatResults,                   \* per file system, const flatResults: state of the promise of the package
    fetchResults,                  \* per file system, const fetchResults: path -> state of the cached promise
    onFetchCalls,                  \* per file system, onFetch(path, text) calls made so far, per path
    calls                          \* the stat / readFile / readDirectory calls made: where each stands

vars == << scriptKind, embeddedCodes, entry, hasCombine, disabledServicePlugins,
           disabledEmbeddedDocumentUris, disabledAtCall, hostOps, pc, walker, docs, yielded, mappedArg,
           pluginIndex, pending, thrown, warned, results, status, returned, emitted, workerCalls,
           transformCalls, combineCalls, paramCalls, validCalls, fetched, level,
           embeddedFilesByLevel, levelResult, token, providers, provideCalls,
           query, positions, listing, textCache, jsonCache, httpFetches, flatResults,
           fetchResults, onFetchCalls, calls >>

configVars == << scriptKind, embeddedCodes, entry, hasCombine, disabledAtCall >>
hostVars == << disabledServicePlugins, disabledEmbeddedDocumentUris, hostOps >>
levelVars == << level, embeddedFilesByLevel, levelResult >>
logVars == << emitted, workerCalls, transformCalls, combineCalls, paramCalls, validCalls, fetched >>
posVars == << query, positions >>
autoVars == << token, providers, provideCalls >>
\* the variables of the other operations
ataVars == << listing, textCache, jsonCache, httpFetches, flatResults, fetchResults,
             onFetchCalls, calls >>
otherVars == << posVars, ataVars >>
auxVars == << otherVars, autoVars >>

\* ------------------------------------------------------------------ values
NoTriple == << 0, 0, 0 >>
Undefined == [kind |-> "undefined", at |-> NoTriple]
Null == [kind |-> "null", at |-> NoTriple]
\* a value that is neither null nor undefined but falsy: "", 0, false
FalsyValue == [kind |-> "falsy", at |-> NoTriple]
\* the (truthy) value a worker returns for a triple
RawValue(t) == [kind |-> "raw", at |-> t]
\* the (truthy) value transformResult makes of it
MappedValue(t) == [kind |-> "mapped", at |-> t]

\* JavaScript's !v
Not(v) == v.kind \in {"undefined", "null", "falsy"}

\* what one worker invocation does
WorkerOutcomes == {"value", "falsy", "null", "undefined", "throw", "reject"}
\* what one transformResult invocation returns
TransformOutcomes == {"value", "falsy", "undefined"}

WorkerValue(o, t) ==
    CASE o = "value" -> RawValue(t)
      [] o = "falsy" -> FalsyValue
      [] o = "null" -> Null
      [] OTHER -> Undefined

TransformValue(o, t) ==
    CASE o = "value" -> MappedValue(t)
      [] o = "falsy" -> FalsyValue
      [] OTHER -> Undefined

\* ------------------------------------------------------------------ the tree
Root == 1
SourceId == "source"
Plugins == 1 .. NumPlugins

EncodeEmbeddedDocumentUri(sourceId, id) == << sourceId, id >>

Disabled(disabledUris, sourceId, id) ==
    EncodeEmbeddedDocumentUri(sourceId, id) \in disabledUris

RECURSIVE SortedSeq(_, _)
SortedSeq(S, desc) ==
    IF S = {} THEN << >>
    ELSE LET m == IF desc THEN CHOOSE x \in S : \A y \in S : y <= x
                  ELSE CHOOSE x \in S : \A y \in S : x <= y
         IN << m >> \o SortedSeq(S \ {m}, desc)

\* the embedding trees of at most `max` nodes: node 1 is the root, every other
\* node has one parent, the children of a node are declared in either order
Trees(max) ==
    { [p \in 1 .. n |-> SortedSeq({c \in 2 .. n : par[c] = p}, desc)] :
        << n, par, desc >> \in
          { t \in UNION { {n} \X [2 .. n -> 1 .. n] \X BOOLEAN : n \in 1 .. max } :
              \A c \in 2 .. t[1] : t[2][c] < c } }

Nodes(codes) == DOMAIN codes
AllUris(codes) == { EncodeEmbeddedDocumentUri(SourceId, id) : id \in Nodes(codes) }

\* ------------------------------------------------------------------ forEachEmbeddedDocument
RECURSIVE forEachVisit(_, _), forEachChildren(_, _, _)
\* the order in which the generator reaches line 151 for the nodes of the tree
forEachChildren(codes, kids, i) ==
    IF i > Len(kids) THEN << >>
    ELSE forEachVisit(codes, kids[i]) \o forEachChildren(codes, kids, i + 1)

\* a walker that yields a node before its children
RECURSIVE forEachVisitPreOrder(_, _)
forEachVisitPreOrder(codes, current) ==
    << current >> \o forEachChildren(codes, codes[current], 1)

forEachVisit(codes, current) ==
    forEachChildren(codes, codes[current], 1) \o << current >>

\* a walker for which a disabled parent disables its children
EmitsInherited(codes, disabledUris, current) ==
    /\ ~Disabled(disabledUris, SourceId, current)
    /\ \A p \in Nodes(codes) :
         (\E i \in 1 .. Len(codes[p]) : codes[p][i] = current)
            => ~Disabled(disabledUris, SourceId, p)

\* a walker that looks at the disabled set as it was when the call was made
EmitsAtCall(codes, disabledUris, current) ==
    ~Disabled(disabledAtCall.uris, SourceId, current)

\* lines 151-152: whether the node reached is yielded
Emits(codes, disabledUris, current) ==
    ~Disabled(disabledUris, SourceId, current)

\* one next() of the generator that has passed `pos` nodes: the nodes it has passed
\* afterwards and the node it yields (0 when it is done)
WalkerNext(codes, disabledUris, pos) ==
    LET order == forEachVisit(codes, Root)
        hits == { j \in (pos + 1) .. Len(order) : Emits(codes, disabledUris, order[j]) }
    IN IF hits = {} THEN [pos |-> Len(order), node |-> 0]
       ELSE LET j == CHOOSE k \in hits : \A h \in hits : k <= h
            IN [pos |-> j, node |-> order[j]]

\* ------------------------------------------------------------------ getEmbeddedFilesByLevel
\* a level view that leaves a file after the first child it pushes
EnabledOfFirst(kids, disabledUris, i) ==
    LET enabled == { j \in i .. Len(kids) : ~Disabled(disabledUris, SourceId, kids[j]) }
    IN IF enabled = {} THEN << >>
       ELSE << kids[CHOOSE j \in enabled : \A k \in enabled : j <= k] >>

RECURSIVE EnabledOf(_, _, _)
\* lines 175-179: the children of one file that are pushed
EnabledOf(kids, disabledUris, i) ==
    IF i > Len(kids) THEN << >>
    ELSE (IF ~Disabled(disabledUris, SourceId, kids[i]) THEN << kids[i] >> ELSE << >>)
            \o EnabledOf(kids, disabledUris, i + 1)

\* a level view that does not look at the disabled set
RECURSIVE NextLevelAll(_, _, _, _)
NextLevelAll(codes, files, disabledUris, i) ==
    IF i > Len(files) THEN << >>
    ELSE codes[files[i]] \o NextLevelAll(codes, files, disabledUris, i + 1)

RECURSIVE NextLevel(_, _, _, _)
\* lines 171-181: nextLevel built from the last level
NextLevel(codes, files, disabledUris, i) ==
    IF i > Len(files) THEN << >>
    ELSE EnabledOf(codes[files[i]], disabledUris, 1)
            \o NextLevel(codes, files, disabledUris, i + 1)

\* ------------------------------------------------------------------ safeCall
\* a safeCall that logs and rethrows
SafeCallRethrows(o) ==
    IF o \in {"throw", "reject"} THEN [type |-> "throw", value |-> Undefined, warned |-> TRUE]
    ELSE [type |-> "normal", value |-> WorkerValue(o, NoTriple), warned |-> FALSE]

\* lines 132-139: the completion of `await safeCall(cb)` when cb() does `o`; a value
\* is tagged with its triple by the caller
safeCall(o) ==
    IF o \in {"throw", "reject"} THEN [type |-> "normal", value |-> Undefined, warned |-> TRUE]
    ELSE [type |-> "normal", value |-> WorkerValue(o, NoTriple), warned |-> FALSE]

\* ------------------------------------------------------------------ languageFeatureWorker
\* a dispatcher without the guard of line 46
HasSourceScriptAlways(kind) == TRUE

\* line 46: sourceScript is truthy
HasSourceScript(kind) == kind # "absent"

\* a plugin loop that does not look at the disabled set
SkipDisabledNever(disabledPlugins, p) == FALSE

\* lines 67 and 98: context.disabledServicePlugins.has(plugin[1])
SkipDisabled(disabledPlugins, p) == p \in disabledPlugins

\* a dispatcher that never short-circuits
ShortCircuitNever(res, combine) == FALSE

\* a dispatcher that short-circuits with a combineResult too
ShortCircuitAlways(res, combine) == Len(res) > 0

\* lines 56, 62 and 71: results.length && !combineResult
ShortCircuit(res, combine) == Len(res) > 0 /\ ~combine

\* a plugin loop that never breaks
BreakNever(combine) == FALSE

\* line 117: !combineResult
Break(combine) == ~combine

\* a generator that yields whatever valid says
ValidYieldsAlways(valid) == 1

\* lines 25-29: the number of parameter sets documentFeatureWorker's generator yields
ValidYields(valid) == IF valid THEN 1 ELSE 0

\* a return that never combines
CombinedFirstOnly(res, combine) ==
    IF Len(res) > 0 THEN [kind |-> "first", value |-> res[1], call |-> << >>]
    ELSE [kind |-> "nothing", value |-> Undefined, call |-> << >>]

\* lines 123-129: what the call returns and the combineResult call it makes
Combined(res, combine) ==
    IF combine /\ Len(res) > 0 THEN [kind |-> "combined", value |-> Undefined, call |-> << res >>]
    ELSE IF Len(res) > 0 THEN [kind |-> "first", value |-> res[1], call |-> << >>]
    ELSE [kind |-> "nothing", value |-> Undefined, call |-> << >>]

NoTransform == [at |-> NoTriple, out |-> "none"]

NoReturn == [kind |-> "none", value |-> Undefined, results |-> << >>]

\* lines 45-52 and 94-95
Start ==
    /\ pc = "start"
    /\ IF ~HasSourceScript(scriptKind)
       THEN /\ pc' = "done"
            /\ status' = "fulfilled"
            /\ returned' = [kind |-> "nothing", value |-> Undefined, results |-> << >>]
            /\ UNCHANGED << walker, pluginIndex, paramCalls, fetched >>
       ELSE IF scriptKind = "generated"
       THEN /\ pc' = "docs"
            /\ walker' = 0
            /\ UNCHANGED << status, returned, pluginIndex, paramCalls, fetched >>
       ELSE /\ pc' = "realPlugins"
            /\ fetched' = fetched + 1
            /\ paramCalls' = [paramCalls EXCEPT !.real = @ + 1]
            /\ pluginIndex' = 1
            /\ UNCHANGED << status, returned, walker >>
    /\ UNCHANGED << auxVars, configVars, thrown, hostVars, levelVars, docs, yielded, mappedArg, pending,
                    warned, results, emitted, workerCalls, transformCalls, combineCalls, validCalls >>

\* lines 54-60: one turn of the loop over forEachEmbeddedDocument
NextDoc ==
    /\ pc = "docs"
    /\ LET n == WalkerNext(embeddedCodes, disabledEmbeddedDocumentUris, walker)
       IN /\ walker' = n.pos
          /\ IF n.node = 0
             THEN /\ pc' = "finish"
                  /\ UNCHANGED << docs, yielded, emitted, fetched, paramCalls >>
             ELSE /\ docs' = n.node
                  /\ emitted' = Append(emitted, n.node)
                  /\ fetched' = fetched + 3
                  /\ IF ShortCircuit(results, hasCombine)
                     THEN /\ pc' = "docs"
                          /\ UNCHANGED << yielded, paramCalls >>
                     ELSE /\ pc' = "params"
                          /\ yielded' = 0
                          /\ paramCalls' = [paramCalls EXCEPT !.virtual = Append(@, n.node)]
    /\ UNCHANGED << auxVars, configVars, thrown, hostVars, levelVars, mappedArg, pluginIndex, pending, warned,
                    results, status, returned, workerCalls, transformCalls, combineCalls, validCalls >>

\* the generator passed as eachVirtualDocParams yields one more parameter set
ParamYield ==
    /\ yielded' = yielded + 1
    /\ mappedArg' = yielded + 1
    /\ IF ShortCircuit(results, hasCombine)
       THEN /\ pc' = "params"
            /\ UNCHANGED pluginIndex
       ELSE /\ pc' = "plugins"
            /\ pluginIndex' = 1

\* the generator passed as eachVirtualDocParams is done
ParamDone ==
    /\ pc' = "docs"
    /\ UNCHANGED << yielded, mappedArg, pluginIndex >>

\* lines 60-66: one turn of the loop over eachVirtualDocParams(docs)
NextParam ==
    /\ pc = "params"
    /\ \/ /\ entry \in {"language", "autoInsert"}
          /\ \/ yielded < MaxParams /\ ParamYield
             \/ ParamDone
          /\ UNCHANGED validCalls
       \/ /\ entry = "document"
          /\ yielded = 0
          /\ \E valid \in BOOLEAN :
               /\ validCalls' = Append(validCalls, << docs, valid >>)
               /\ IF ValidYields(valid) > 0 THEN ParamYield ELSE ParamDone
       \/ /\ entry = "document"
          /\ yielded > 0
          /\ ParamDone
          /\ UNCHANGED validCalls
    /\ UNCHANGED << auxVars, configVars, thrown, hostVars, levelVars, walker, docs, pending, warned, results,
                    status, returned, emitted, workerCalls, transformCalls, combineCalls, paramCalls,
                    fetched >>

\* a worker that does not look at the token
DelegatesAlways(cancelled) == TRUE

\* lines 274-276 of register: the worker goes on to the plugin
Delegates(cancelled) == ~cancelled

\* line 277 of register: service.provideAutoInsertionEdit?.(...) is invoked
Provides(e, cancelled, has) == e = "autoInsert" /\ Delegates(cancelled) /\ has

\* what one worker invocation can do: register's worker returns undefined unless it
\* invokes provideAutoInsertionEdit
WorkerOutcomesOf(e, cancelled, has) ==
    IF e = "autoInsert" /\ ~Provides(e, cancelled, has) THEN {"undefined"} ELSE WorkerOutcomes

\* what one transformResult invocation can return: register's (lines 279-288) returns
\* the item when there is no map, and the item or undefined when there is one
TransformOutcomesOf(e, kind) ==
    IF e # "autoInsert" THEN TransformOutcomes
    ELSE IF kind = "plain" THEN {"value"} ELSE {"value", "undefined"}

\* a dispatcher that calls worker and goes on to the next plugin without awaiting
InvokeNoAwait(next) ==
    /\ \E o \in WorkerOutcomesOf(entry, token, pluginIndex \in providers) :
         /\ o = "value" => Len(results) < MaxResults
         /\ pending' = o
    /\ workerCalls' = Append(workerCalls, << docs, mappedArg, pluginIndex >>)
    /\ provideCalls' = IF Provides(entry, token, pluginIndex \in providers)
                         THEN Append(provideCalls, << docs, mappedArg, pluginIndex >>)
                         ELSE provideCalls
    /\ pc' = pc
    /\ pluginIndex' = pluginIndex + 1

\* lines 75-78 and 102-105: worker is called inside safeCall and awaited
Invoke(next) ==
    /\ \E o \in WorkerOutcomesOf(entry, token, pluginIndex \in providers) :
         /\ o = "value" => Len(results) < MaxResults
         /\ pending' = o
    /\ workerCalls' = Append(workerCalls, << docs, mappedArg, pluginIndex >>)
    /\ provideCalls' = IF Provides(entry, token, pluginIndex \in providers)
                         THEN Append(provideCalls, << docs, mappedArg, pluginIndex >>)
                         ELSE provideCalls
    /\ pc' = next
    /\ UNCHANGED pluginIndex

\* lines 66-75: one turn of the loop over context.plugins, generated path
NextPlugin ==
    /\ pc = "plugins"
    /\ IF pluginIndex > NumPlugins
       THEN /\ pc' = "params"
            /\ UNCHANGED << pluginIndex, pending, workerCalls, provideCalls >>
       ELSE IF SkipDisabled(disabledServicePlugins, pluginIndex)
       THEN /\ pluginIndex' = pluginIndex + 1
            /\ UNCHANGED << pc, pending, workerCalls, provideCalls >>
       ELSE IF ShortCircuit(results, hasCombine)
       THEN /\ pluginIndex' = pluginIndex + 1
            /\ UNCHANGED << pc, pending, workerCalls, provideCalls >>
       ELSE Invoke("await")
    /\ UNCHANGED << otherVars, token, providers, configVars, thrown, hostVars, levelVars, walker, docs, yielded, mappedArg, warned,
                    results, status, returned, emitted, transformCalls, combineCalls, paramCalls,
                    validCalls, fetched >>

\* a throw that reaches the async function rejects the call
Reject ==
    /\ pc' = "done"
    /\ status' = "rejected"
    /\ UNCHANGED << pluginIndex, results, transformCalls >>

\* lines 79-87 and 106-115: the awaited value is tested, transformed and pushed;
\* `stop` says whether the plugin loop is left after a push
Accept(here, after, stop) ==
    LET t == << docs, mappedArg, pluginIndex >>
        c == safeCall(pending)
        raw == IF c.value.kind = "raw" THEN RawValue(t) ELSE c.value
    IN IF c.type = "throw" THEN Reject
       ELSE IF Not(raw)
       THEN /\ pluginIndex' = pluginIndex + 1
            /\ pc' = here
            /\ UNCHANGED << results, transformCalls, status >>
       ELSE /\ UNCHANGED status
            /\ \E o \in TransformOutcomesOf(entry, scriptKind) :
                 LET mapped == TransformValue(o, t)
                 IN /\ transformCalls' = [at |-> t, out |-> o]
                    /\ IF Not(mapped)
                       THEN /\ pluginIndex' = pluginIndex + 1
                            /\ pc' = here
                            /\ UNCHANGED results
                       ELSE /\ results' = Append(results, mapped)
                            /\ IF stop
                               THEN pc' = after /\ UNCHANGED pluginIndex
                               ELSE pc' = here /\ pluginIndex' = pluginIndex + 1

\* lines 75-88: the awaited worker result settles, generated path
Settle ==
    /\ pc = "await"
    /\ Accept("plugins", "plugins", FALSE)
    /\ warned' = safeCall(pending).warned
    /\ pending' = "none"
    /\ UNCHANGED << auxVars, configVars, thrown, hostVars, levelVars, walker, docs, yielded, mappedArg, returned,
                    emitted, workerCalls, combineCalls, paramCalls, validCalls, fetched >>

\* lines 97-102: one turn of the loop over context.plugins, non-generated path
NextRealPlugin ==
    /\ pc = "realPlugins"
    /\ IF pluginIndex > NumPlugins
       THEN /\ pc' = "finish"
            /\ UNCHANGED << pluginIndex, pending, workerCalls, provideCalls >>
       ELSE IF SkipDisabled(disabledServicePlugins, pluginIndex)
       THEN /\ pluginIndex' = pluginIndex + 1
            /\ UNCHANGED << pc, pending, workerCalls, provideCalls >>
       ELSE Invoke("realAwait")
    /\ UNCHANGED << otherVars, token, providers, configVars, thrown, hostVars, levelVars, walker, docs, yielded, mappedArg, warned,
                    results, status, returned, emitted, transformCalls, combineCalls, paramCalls,
                    validCalls, fetched >>

\* lines 102-119: the awaited worker result settles, non-generated path
RealSettle ==
    /\ pc = "realAwait"
    /\ Accept("realPlugins", "finish", Break(hasCombine))
    /\ warned' = safeCall(pending).warned
    /\ pending' = "none"
    /\ UNCHANGED << auxVars, configVars, thrown, hostVars, levelVars, walker, docs, yielded, mappedArg, returned,
                    emitted, workerCalls, combineCalls, paramCalls, validCalls, fetched >>

\* lines 123-129
Finish ==
    /\ pc = "finish"
    /\ LET r == Combined(results, hasCombine)
       IN /\ combineCalls' = combineCalls \o r.call
          /\ returned' = [kind |-> r.kind, value |-> r.value, results |-> results]
    /\ pc' = "done"
    /\ status' = "fulfilled"
    /\ UNCHANGED << auxVars, configVars, thrown, hostVars, levelVars, walker, docs, yielded, mappedArg,
                    pluginIndex, pending, warned, results, emitted, workerCalls,
                    transformCalls, paramCalls, validCalls, fetched >>

\* ------------------------------------------------------------------ the host
\* while a worker invocation is awaited the host adds a plugin to, or removes it from,
\* context.disabledServicePlugins
HostTogglePlugin ==
    /\ pc \in {"await", "realAwait"}
    /\ hostOps < MaxHostOps
    /\ \E p \in Plugins :
         disabledServicePlugins' =
            IF p \in disabledServicePlugins THEN disabledServicePlugins \ {p}
            ELSE disabledServicePlugins \cup {p}
    /\ hostOps' = hostOps + 1
    /\ UNCHANGED << auxVars, configVars, thrown, levelVars, logVars, disabledEmbeddedDocumentUris, pc, walker,
                    docs, yielded, mappedArg, pluginIndex, pending, warned, results, status,
                    returned >>

\* ... or an embedded document to, or from, context.disabledEmbeddedDocumentUris
HostToggleDocument ==
    /\ pc = "await"
    /\ hostOps < MaxHostOps
    /\ \E u \in AllUris(embeddedCodes) :
         disabledEmbeddedDocumentUris' =
            IF u \in disabledEmbeddedDocumentUris THEN disabledEmbeddedDocumentUris \ {u}
            ELSE disabledEmbeddedDocumentUris \cup {u}
    /\ hostOps' = hostOps + 1
    /\ UNCHANGED << auxVars, configVars, thrown, levelVars, logVars, disabledServicePlugins, pc, walker,
                    docs, yielded, mappedArg, pluginIndex, pending, warned, results, status,
                    returned >>

\* ------------------------------------------------------------------ the call
NoQuery == [toSource |-> TRUE, sourceDocument |-> << >>, embeddedDocument |-> << >>,
            map |-> << >>, position |-> [line |-> 0, character |-> 0], filter |-> "all"]

\* no position helper is in use
PosIdle ==
    /\ query = NoQuery
    /\ positions = << >>

\* the request is not an auto-insertion request
AutoIdle ==
    /\ token = FALSE
    /\ providers = {}
    /\ provideCalls = << >>

\* paths of the one package asked for: "pkg/<file>"; Outside is a uri that is not under
\* /node_modules, for which getCdnPath gives undefined
Instances == 1 .. NumInstances
Files == 1 .. NumFiles
Outside == 0
JsonUrls == {"resolve", "flat"}

\* no file system has been made
AtaIdle ==
    /\ listing = {}
    /\ textCache = [f \in Files |-> "none"]
    /\ jsonCache = [u \in JsonUrls |-> "none"]
    /\ httpFetches = [text |-> [f \in Files |-> 0], json |-> [u \in JsonUrls |-> 0]]
    /\ flatResults = [i \in Instances |-> "none"]
    /\ fetchResults = [i \in Instances |-> [f \in Files |-> "none"]]
    /\ onFetchCalls = [i \in Instances |-> [f \in Files |-> 0]]
    /\ calls = << >>

\* none of the other operations is in use
AuxIdle == PosIdle /\ AtaIdle

InitCall ==
    /\ pc = "start"
    /\ disabledAtCall = [plugins |-> disabledServicePlugins, uris |-> disabledEmbeddedDocumentUris]
    /\ walker = 0
    /\ docs = 0
    /\ yielded = 0
    /\ mappedArg = 0
    /\ pluginIndex = 0
    /\ pending = "none"
    /\ thrown = "none"
    /\ warned = FALSE
    /\ results = << >>
    /\ status = "running"
    /\ returned = NoReturn
    /\ emitted = << >>
    /\ workerCalls = << >>
    /\ transformCalls = NoTransform
    /\ combineCalls = << >>
    /\ paramCalls = [real |-> 0, virtual |-> << >>]
    /\ validCalls = << >>
    /\ fetched = 0
    /\ hostOps = 0
    /\ level = 0
    /\ embeddedFilesByLevel = << >>
    /\ levelResult = << >>
    /\ AuxIdle

Init ==
    /\ scriptKind \in {"absent", "plain", "generated"}
    /\ embeddedCodes \in Trees(MaxDocs)
    /\ scriptKind # "generated" => embeddedCodes = [p \in {Root} |-> << >>]
    /\ entry \in {"language", "document"}
    /\ hasCombine \in BOOLEAN
    /\ disabledServicePlugins \in SUBSET Plugins
    /\ disabledEmbeddedDocumentUris \in SUBSET AllUris(embeddedCodes)
    /\ scriptKind # "generated" => disabledEmbeddedDocumentUris = {}
    /\ InitCall
    /\ AutoIdle

Next ==
    \/ Start
    \/ NextDoc
    \/ NextParam
    \/ NextPlugin
    \/ Settle
    \/ NextRealPlugin
    \/ RealSettle
    \/ Finish
    \/ HostTogglePlugin
    \/ HostToggleDocument

Spec == Init /\ [][Next]_vars

\* ------------------------------------------------------------------ the walker and the level view alone
callVars == << pluginIndex, pending, warned, results, status, returned, docs, yielded, mappedArg,
               workerCalls, transformCalls, combineCalls, paramCalls, validCalls >>

\* one next() of forEachEmbeddedDocument(context, sourceScript, root), lines 141-159
WalkNext ==
    /\ pc = "walk"
    /\ LET n == WalkerNext(embeddedCodes, disabledEmbeddedDocumentUris, walker)
       IN /\ walker' = n.pos
          /\ IF n.node = 0
             THEN /\ pc' = "walked"
                  /\ UNCHANGED << emitted, fetched >>
             ELSE /\ emitted' = Append(emitted, n.node)
                  /\ fetched' = fetched + 3
                  /\ UNCHANGED pc
    /\ UNCHANGED << auxVars, configVars, thrown, hostVars, levelVars, callVars >>

\* getEmbeddedFilesByLevel(context, sourceFileUri, rootFile, level) is entered, line 163
LevelStart ==
    /\ pc = "walked"
    /\ level' \in 0 .. MaxLevel
    /\ embeddedFilesByLevel' = << << Root >> >>
    /\ pc' = "levels"
    /\ UNCHANGED << auxVars, configVars, thrown, hostVars, callVars, walker, emitted, fetched, levelResult >>

\* a loop that builds nextLevel and does not push it
LevelLoopNoPush ==
    /\ pc = "levels"
    /\ IF Len(embeddedFilesByLevel) > level
       THEN /\ levelResult' = embeddedFilesByLevel[level + 1]
            /\ pc' = "levelDone"
       ELSE UNCHANGED << pc, levelResult >>
    /\ UNCHANGED << auxVars, configVars, thrown, hostVars, callVars, walker, emitted, fetched, level,
                    embeddedFilesByLevel >>

\* one turn of its while (true), lines 165-184
LevelLoop ==
    /\ pc = "levels"
    /\ IF Len(embeddedFilesByLevel) > level
       THEN /\ levelResult' = embeddedFilesByLevel[level + 1]
            /\ pc' = "levelDone"
            /\ UNCHANGED embeddedFilesByLevel
       ELSE /\ embeddedFilesByLevel' =
                 Append(embeddedFilesByLevel,
                        NextLevel(embeddedCodes, embeddedFilesByLevel[Len(embeddedFilesByLevel)],
                                  disabledEmbeddedDocumentUris, 1))
            /\ UNCHANGED << pc, levelResult >>
    /\ UNCHANGED << auxVars, configVars, thrown, hostVars, callVars, walker, emitted, fetched, level >>

InitWalk ==
    /\ scriptKind = "generated"
    /\ embeddedCodes \in Trees(MaxNodes)
    /\ entry = "language"
    /\ hasCombine = FALSE
    /\ disabledServicePlugins = {}
    /\ disabledEmbeddedDocumentUris \in SUBSET AllUris(embeddedCodes)
    /\ disabledAtCall = [plugins |-> disabledServicePlugins, uris |-> disabledEmbeddedDocumentUris]
    /\ walker = 0
    /\ docs = 0
    /\ yielded = 0
    /\ mappedArg = 0
    /\ pluginIndex = 0
    /\ pending = "none"
    /\ thrown = "none"
    /\ warned = FALSE
    /\ results = << >>
    /\ status = "running"
    /\ returned = NoReturn
    /\ emitted = << >>
    /\ workerCalls = << >>
    /\ transformCalls = NoTransform
    /\ combineCalls = << >>
    /\ paramCalls = [real |-> 0, virtual |-> << >>]
    /\ validCalls = << >>
    /\ fetched = 0
    /\ hostOps = 0
    /\ level = 0
    /\ embeddedFilesByLevel = << >>
    /\ levelResult = << >>
    /\ AuxIdle
    /\ AutoIdle
    /\ pc = "walk"

NextWalk ==
    \/ WalkNext
    \/ LevelStart
    \/ LevelLoop

SpecWalk == InitWalk /\ [][NextWalk]_vars

\* ------------------------------------------------------------------ the non-generated path alone
InitPlain ==
    /\ Init
    /\ scriptKind \in {"absent", "plain"}

NextPlain ==
    \/ Start
    \/ NextRealPlugin
    \/ RealSettle
    \/ Finish
    \/ HostTogglePlugin

SpecPlain == InitPlain /\ [][NextPlain]_vars

\* ------------------------------------------------------------------ callbacks that throw
\* a dispatcher that guards every callback the way it guards worker
CaughtAll(callback) == TRUE

\* lines 75-78, 102-105 and 132-139: safeCall's try holds the call of worker and nothing
\* else
Caught(callback) == callback = "worker"

\* lines 82 and 110: transformResult throws for the value the awaited invocation gave
TransformThrows ==
    /\ pc \in {"await", "realAwait"}
    /\ ~Not(WorkerValue(pending, NoTriple))
    /\ safeCall(pending).type = "normal"
    /\ transformCalls' = [at |-> << docs, mappedArg, pluginIndex >>, out |-> "throw"]
    /\ thrown' = "transformResult"
    /\ warned' = safeCall(pending).warned
    /\ pending' = "none"
    /\ IF Caught("transformResult")
       THEN /\ pc' = (IF pc = "await" THEN "plugins" ELSE "realPlugins")
            /\ pluginIndex' = pluginIndex + 1
            /\ UNCHANGED status
       ELSE /\ pc' = "done"
            /\ status' = "rejected"
            /\ UNCHANGED pluginIndex
    /\ UNCHANGED << auxVars, configVars, hostVars, levelVars, walker, docs, yielded, mappedArg,
                    results, returned, emitted, workerCalls, combineCalls, paramCalls,
                    validCalls, fetched >>

\* line 60: a pull of the eachVirtualDocParams generator throws (for documentFeatureWorker,
\* valid throws)
ParamsThrow ==
    /\ pc = "params"
    /\ entry = "document" => yielded = 0
    /\ thrown' = "eachVirtualDocParams"
    /\ IF Caught("eachVirtualDocParams")
       THEN /\ pc' = "docs"
            /\ UNCHANGED status
       ELSE /\ pc' = "done"
            /\ status' = "rejected"
    /\ UNCHANGED << auxVars, configVars, hostVars, levelVars, walker, docs, yielded, mappedArg,
                    pluginIndex, pending, warned, results, returned, emitted, workerCalls,
                    transformCalls, combineCalls, paramCalls, validCalls, fetched >>

\* line 124: combineResult throws
CombineThrows ==
    /\ pc = "finish"
    /\ hasCombine
    /\ Len(results) > 0
    /\ combineCalls' = Append(combineCalls, results)
    /\ thrown' = "combineResult"
    /\ pc' = "done"
    /\ IF Caught("combineResult")
       THEN /\ status' = "fulfilled"
            /\ returned' = [kind |-> "nothing", value |-> Undefined, results |-> results]
       ELSE /\ status' = "rejected"
            /\ UNCHANGED returned
    /\ UNCHANGED << auxVars, configVars, hostVars, levelVars, walker, docs, yielded, mappedArg,
                    pluginIndex, pending, warned, results, emitted, workerCalls,
                    transformCalls, paramCalls, validCalls, fetched >>

NextThrow ==
    \/ Next
    \/ TransformThrows
    \/ ParamsThrow
    \/ CombineThrows

SpecThrow == Init /\ [][NextThrow]_vars

\* ------------------------------------------------------------------ auto-insertion (register)
\* the caller cancels the token, before the call or while an invocation is awaited
Cancel ==
    /\ pc \in {"start", "await", "realAwait"}
    /\ ~token
    /\ token' = TRUE
    /\ UNCHANGED << otherVars, providers, provideCalls, configVars, thrown, hostVars, levelVars, logVars,
                    pc, walker, docs, yielded, mappedArg, pluginIndex, pending, warned, results,
                    status, returned >>

\* lines 250-289 of register: languageFeatureWorker is called with register's closures
\* and no combineResult
InitAuto ==
    /\ scriptKind \in {"absent", "plain", "generated"}
    /\ embeddedCodes \in Trees(MaxDocs)
    /\ scriptKind # "generated" => embeddedCodes = [p \in {Root} |-> << >>]
    /\ entry = "autoInsert"
    /\ hasCombine = FALSE
    /\ disabledServicePlugins \in SUBSET Plugins
    /\ disabledEmbeddedDocumentUris \in SUBSET AllUris(embeddedCodes)
    /\ scriptKind # "generated" => disabledEmbeddedDocumentUris = {}
    /\ InitCall
    /\ token = FALSE
    /\ providers \in SUBSET Plugins
    /\ provideCalls = << >>

NextAuto ==
    \/ Start
    \/ NextDoc
    \/ NextParam
    \/ NextPlugin
    \/ Settle
    \/ NextRealPlugin
    \/ RealSettle
    \/ Finish
    \/ Cancel

SpecAuto == InitAuto /\ [][NextAuto]_vars

\* ------------------------------------------------------------------ calls that run to their end
\* the steps of a languageFeatureWorker call
CallStep ==
    \/ Start
    \/ NextDoc
    \/ NextParam
    \/ NextPlugin
    \/ Settle
    \/ NextRealPlugin
    \/ RealSettle
    \/ Finish

\* a dispatch call, or a walk followed by a getEmbeddedFilesByLevel call
InitLive == Init \/ InitWalk

NextLive == Next \/ NextWalk

\* synchronous code runs on, the value of every worker invocation settles and the
\* continuation of the await is then run; the host owes no step
SpecLive ==
    /\ InitLive
    /\ [][NextLive]_vars
    /\ WF_vars(CallStep)
    /\ WF_vars(NextWalk)

\* ------------------------------------------------------------------ the position helpers
\* a TextDocument is the sequence of the lengths of its lines, line break included
RECURSIVE SumTo(_, _)
SumTo(lines, n) == IF n = 0 THEN 0 ELSE lines[n] + SumTo(lines, n - 1)
TextLength(document) == SumTo(document, Len(document))
\* lineOffsets[line], lines counted from 0
LineOffset(document, line) == SumTo(document, line)
Min(a, b) == IF a < b THEN a ELSE b
Max(a, b) == IF a < b THEN b ELSE a

\* TextDocument.offsetAt
offsetAt(document, position) ==
    IF position.line >= Len(document) THEN TextLength(document)
    ELSE IF position.line < 0 THEN 0
    ELSE LET lineOffset == LineOffset(document, position.line)
             nextLineOffset == IF position.line + 1 < Len(document)
                                 THEN LineOffset(document, position.line + 1)
                                 ELSE TextLength(document)
         IN Max(Min(lineOffset + position.character, nextLineOffset), lineOffset)

\* TextDocument.positionAt
positionAt(document, offset) ==
    LET o == Max(Min(offset, TextLength(document)), 0)
        line == CHOOSE l \in 0 .. Len(document) - 1 :
                  /\ LineOffset(document, l) <= o
                  /\ \A k \in 0 .. Len(document) - 1 : LineOffset(document, k) <= o => k <= l
    IN [line |-> line, character |-> o - LineOffset(document, line)]

\* the positions of a document
PositionsOf(document) ==
    { [line |-> l, character |-> c] : << l, c >> \in
        { lc \in (0 .. Len(document) - 1) \X (0 .. TextLength(document)) :
            lc[2] <= document[lc[1] + 1] } }

\* filter(mapping.data): "all" is the default () => true, "flag" asks for a capability
Passes(filter, mapping) == filter = "all" \/ mapping.data

\* the mapping oracle: the offsets of the other side that the mappings passing the filter
\* give for an offset within their span, ends included, in the order of the mappings;
\* each comes with its mapping, as [offset, mapping]
RECURSIVE findMatchingOffsets(_, _, _, _, _)
findMatchingOffsets(map, offset, toSource, filter, i) ==
    IF i > Len(map) THEN << >>
    ELSE LET m == map[i]
             from == IF toSource THEN m.generated ELSE m.source
             to == IF toSource THEN m.source ELSE m.generated
         IN (IF Passes(filter, m) /\ from <= offset /\ offset <= from + m.length
               THEN << << to + (offset - from), i >> >> ELSE << >>)
              \o findMatchingOffsets(map, offset, toSource, filter, i + 1)

getSourceOffsets(map, generatedOffset, filter) ==
    findMatchingOffsets(map, generatedOffset, TRUE, filter, 1)
getGeneratedOffsets(map, sourceOffset, filter) ==
    findMatchingOffsets(map, sourceOffset, FALSE, filter, 1)

RECURSIVE WithoutRepeats(_)
WithoutRepeats(seq) ==
    IF seq = << >> THEN << >>
    ELSE LET front == WithoutRepeats(SubSeq(seq, 1, Len(seq) - 1))
             x == seq[Len(seq)]
         IN IF \E i \in 1 .. Len(front) : front[i] = x THEN front ELSE Append(front, x)

\* a helper that yields a position once
getSourcePositionsDistinct(sourceDocument, embeddedDocument, map, position, filter) ==
    LET mapped == getSourceOffsets(map, offsetAt(embeddedDocument, position), filter)
    IN WithoutRepeats([i \in 1 .. Len(mapped) |-> positionAt(sourceDocument, mapped[i][1])])

\* lines 221-225: what the generator yields, in order
getSourcePositions(sourceDocument, embeddedDocument, map, position, filter) ==
    LET mapped == getSourceOffsets(map, offsetAt(embeddedDocument, position), filter)
    IN [i \in 1 .. Len(mapped) |-> positionAt(sourceDocument, mapped[i][1])]

\* lines 227-231: what the generator yields, in order
getGeneratedPositions(sourceDocument, embeddedDocument, map, position, filter) ==
    LET mapped == getGeneratedOffsets(map, offsetAt(sourceDocument, position), filter)
    IN [i \in 1 .. Len(mapped) |-> positionAt(embeddedDocument, mapped[i][1])]

\* one next() of the generator of a getSourcePositions call
SourcePositionsNext ==
    /\ pc = "positions"
    /\ query.toSource
    /\ LET all == getSourcePositions(query.sourceDocument, query.embeddedDocument, query.map,
                                     query.position, query.filter)
       IN IF Len(positions) < Len(all)
          THEN positions' = Append(positions, all[Len(positions) + 1]) /\ UNCHANGED pc
          ELSE pc' = "exhausted" /\ UNCHANGED positions
    /\ UNCHANGED << query, ataVars, autoVars, configVars, thrown, hostVars, levelVars, callVars,
                    walker, emitted, fetched >>

\* one next() of the generator of a getGeneratedPositions call
GeneratedPositionsNext ==
    /\ pc = "positions"
    /\ ~query.toSource
    /\ LET all == getGeneratedPositions(query.sourceDocument, query.embeddedDocument, query.map,
                                        query.position, query.filter)
       IN IF Len(positions) < Len(all)
          THEN positions' = Append(positions, all[Len(positions) + 1]) /\ UNCHANGED pc
          ELSE pc' = "exhausted" /\ UNCHANGED positions
    /\ UNCHANGED << query, ataVars, autoVars, configVars, thrown, hostVars, levelVars, callVars,
                    walker, emitted, fetched >>

\* the length of a mapped span
SpanLength == DocLength \div 2
\* the mappings between two texts of DocLength characters
Mappings ==
    [source : 0 .. DocLength - SpanLength, generated : 0 .. DocLength - SpanLength,
     length : {SpanLength}, data : BOOLEAN]
Maps == UNION { [1 .. n -> Mappings] : n \in 0 .. MaxMappings }
\* a text of one line and a text of two
OneLine == << DocLength >>
TwoLines == << SpanLength, DocLength - SpanLength >>

InitPositions ==
    /\ \E texts \in {<< OneLine, TwoLines >>, << TwoLines, OneLine >>} :
       \E toSource \in BOOLEAN :
       \E map \in Maps :
       \E filter \in {"all", "flag"} :
       \E position \in PositionsOf(IF toSource THEN texts[2] ELSE texts[1]) :
         query = [toSource |-> toSource, sourceDocument |-> texts[1],
                  embeddedDocument |-> texts[2], map |-> map, position |-> position,
                  filter |-> filter]
    /\ positions = << >>
    /\ AutoIdle
    /\ AtaIdle
    /\ pc = "positions"
    /\ scriptKind = "generated"
    /\ embeddedCodes = [p \in {Root} |-> << >>]
    /\ entry = "language"
    /\ hasCombine = FALSE
    /\ disabledServicePlugins = {}
    /\ disabledEmbeddedDocumentUris = {}
    /\ disabledAtCall = [plugins |-> {}, uris |-> {}]
    /\ walker = 0
    /\ docs = 0
    /\ yielded = 0
    /\ mappedArg = 0
    /\ pluginIndex = 0
    /\ pending = "none"
    /\ thrown = "none"
    /\ warned = FALSE
    /\ results = << >>
    /\ status = "running"
    /\ returned = NoReturn
    /\ emitted = << >>
    /\ workerCalls = << >>
    /\ transformCalls = NoTransform
    /\ combineCalls = << >>
    /\ paramCalls = [real |-> 0, virtual |-> << >>]
    /\ validCalls = << >>
    /\ fetched = 0
    /\ hostOps = 0
    /\ level = 0
    /\ embeddedFilesByLevel = << >>
    /\ levelResult = << >>

NextPositions ==
    \/ SourcePositionsNext
    \/ GeneratedPositionsNext

SpecPositions == InitPositions /\ [][NextPositions]_vars

\* ------------------------------------------------------------------ the jsDelivr file system (ata.ts)
\* a cache that holds values, not promises: an entry exists once the fetch has settled
HasSettled(promise) == promise \notin {"none", "pending"}

\* Map.has of lines 66, 98, 124, 230 and 246: the caches hold promises, so an entry
\* exists from the moment the operation is started
Has(promise) == promise # "none"

\* lines 232-239 and 247-255: what the cached promise resolves with, for the outcome of
\* fetch(url): status 200 (for the resolve url, with or without a version), another
\* status, or a network error
Settled(outcome) ==
    CASE outcome = "ok" -> "data"
      [] outcome = "no version" -> "no version"
      [] OTHER -> "absent"

HttpOutcomes(url) ==
    IF url = "resolve" THEN {"ok", "no version", "status", "error"} ELSE {"ok", "status", "error"}

\* lines 229-243: fetchText(url) up to its await
fetchText(f) ==
    IF Has(textCache[f])
    THEN UNCHANGED << textCache, httpFetches >>
    ELSE /\ textCache' = [textCache EXCEPT ![f] = "pending"]
         /\ httpFetches' = [httpFetches EXCEPT !.text[f] = @ + 1]

\* lines 245-259: the cache and the count of fetches after fetchJson(url) up to its await
fetchJsonCache(cache, url) == IF Has(cache[url]) THEN cache ELSE [cache EXCEPT ![url] = "pending"]
fetchJsonCount(cache, count, url) ==
    IF Has(cache[url]) THEN count ELSE [count EXCEPT !.json[url] = @ + 1]

\* lines 66-68 and 98-100, with flat() (lines 140-145) up to its first await: version is
\* undefined, so 'latest' is resolved first
EnsureFlat(i) ==
    IF Has(flatResults[i])
    THEN UNCHANGED << flatResults, jsonCache, httpFetches >>
    ELSE /\ flatResults' = [flatResults EXCEPT ![i] = "resolve"]
         /\ jsonCache' = fetchJsonCache(jsonCache, "resolve")
         /\ httpFetches' = fetchJsonCount(jsonCache, httpFetches, "resolve")

\* the variables of the dispatcher and its helpers
nonAtaVars == << configVars, thrown, hostVars, levelVars, callVars, autoVars, posVars, pc, walker,
                 emitted, fetched >>

\* lines 28-56: stat, readFile or readDirectory is called on a file system; for a uri
\* outside /node_modules it returns at once, otherwise _stat, _readFile or _readDirectory
\* runs up to its await of isValidPackageName
FsCall ==
    /\ pc = "ata"
    /\ Len(calls) < MaxCalls
    /\ \E i \in Instances, op \in {"stat", "readFile", "readDirectory"}, f \in Files \cup {Outside} :
         calls' = Append(calls, [fs |-> i, op |-> op, file |-> f,
                                 at |-> IF f = Outside THEN "done" ELSE "valid",
                                 result |-> IF f = Outside /\ op = "readDirectory"
                                              THEN "entries" ELSE "undefined"])
    /\ UNCHANGED << listing, textCache, jsonCache, httpFetches, flatResults, fetchResults,
                    onFetchCalls, nonAtaVars >>

\* lines 62-70, 94-102 and 120-137: isValidPackageName has held; _stat and _readDirectory
\* make sure of the flat listing and await it, _readFile makes sure of the promise of
\* the path, whose function runs _stat up to its await of isValidPackageName, and awaits it
FsValid ==
    /\ pc = "ata"
    /\ \E c \in 1 .. Len(calls) :
         /\ calls[c].at = "valid"
         /\ IF calls[c].op = "readFile"
            THEN /\ calls' = [calls EXCEPT ![c].at = "read"]
                 /\ fetchResults' =
                      IF Has(fetchResults[calls[c].fs][calls[c].file]) THEN fetchResults
                      ELSE [fetchResults EXCEPT ![calls[c].fs][calls[c].file] = "valid"]
                 /\ UNCHANGED << flatResults, jsonCache, httpFetches >>
            ELSE /\ calls' = [calls EXCEPT ![c].at = "flat"]
                 /\ EnsureFlat(calls[c].fs)
                 /\ UNCHANGED fetchResults
    /\ UNCHANGED << listing, textCache, onFetchCalls, nonAtaVars >>

\* lines 70-88 and 102-114: the flat listing has come; _stat and _readDirectory answer
FsFlat ==
    /\ pc = "ata"
    /\ \E c \in 1 .. Len(calls) :
         /\ calls[c].at = "flat"
         /\ flatResults[calls[c].fs] \in {"files", "empty"}
         /\ calls' = [calls EXCEPT
                        ![c].at = "done",
                        ![c].result =
                           IF calls[c].op = "readDirectory" THEN "entries"
                           ELSE IF flatResults[calls[c].fs] = "files" /\ calls[c].file \in listing
                           THEN "file" ELSE "undefined"]
    /\ UNCHANGED << listing, textCache, jsonCache, httpFetches, flatResults, fetchResults,
                    onFetchCalls, nonAtaVars >>

\* line 137: the promise of the path has resolved; _readFile answers
FsRead ==
    /\ pc = "ata"
    /\ \E c \in 1 .. Len(calls) :
         /\ calls[c].at = "read"
         /\ fetchResults[calls[c].fs][calls[c].file] \in {"text", "undefined"}
         /\ calls' = [calls EXCEPT ![c].at = "done",
                                   ![c].result = fetchResults[calls[c].fs][calls[c].file]]
    /\ UNCHANGED << listing, textCache, jsonCache, httpFetches, flatResults, fetchResults,
                    onFetchCalls, nonAtaVars >>

\* lines 125-126 with 62-70: in the function of a path's promise, isValidPackageName has
\* held and _stat makes sure of the flat listing and awaits it
ReadValid ==
    /\ pc = "ata"
    /\ \E i \in Instances, f \in Files :
         /\ fetchResults[i][f] = "valid"
         /\ fetchResults' = [fetchResults EXCEPT ![i][f] = "stat"]
         /\ EnsureFlat(i)
    /\ UNCHANGED << listing, textCache, onFetchCalls, calls, nonAtaVars >>

\* lines 126-129 with 70-88: _stat has answered; unless it says file the promise
\* resolves with undefined, else fetchText is called and awaited
ReadStat ==
    /\ pc = "ata"
    /\ \E i \in Instances, f \in Files :
         /\ fetchResults[i][f] = "stat"
         /\ flatResults[i] \in {"files", "empty"}
         /\ IF flatResults[i] = "files" /\ f \in listing
            THEN /\ fetchResults' = [fetchResults EXCEPT ![i][f] = "fetchText"]
                 /\ fetchText(f)
            ELSE /\ fetchResults' = [fetchResults EXCEPT ![i][f] = "undefined"]
                 /\ UNCHANGED << textCache, httpFetches >>
    /\ UNCHANGED << listing, jsonCache, flatResults, onFetchCalls, calls, nonAtaVars >>

\* lines 129-133: fetchText has answered; onFetch is called for a text
ReadText ==
    /\ pc = "ata"
    /\ \E i \in Instances, f \in Files :
         /\ fetchResults[i][f] = "fetchText"
         /\ textCache[f] \in {"data", "absent"}
         /\ IF textCache[f] = "data"
            THEN /\ onFetchCalls' = [onFetchCalls EXCEPT ![i][f] = @ + 1]
                 /\ fetchResults' = [fetchResults EXCEPT ![i][f] = "text"]
            ELSE /\ fetchResults' = [fetchResults EXCEPT ![i][f] = "undefined"]
                 /\ UNCHANGED onFetchCalls
    /\ UNCHANGED << listing, textCache, jsonCache, httpFetches, flatResults, calls, nonAtaVars >>

\* lines 145-159: in flat(), the resolve url has answered; without a version the listing
\* is empty, else the flat url is fetched and awaited
FlatResolved ==
    /\ pc = "ata"
    /\ \E i \in Instances :
         /\ flatResults[i] = "resolve"
         /\ jsonCache["resolve"] \in {"data", "no version", "absent"}
         /\ IF jsonCache["resolve"] = "data"
            THEN /\ flatResults' = [flatResults EXCEPT ![i] = "flat"]
                 /\ jsonCache' = fetchJsonCache(jsonCache, "flat")
                 /\ httpFetches' = fetchJsonCount(jsonCache, httpFetches, "flat")
            ELSE /\ flatResults' = [flatResults EXCEPT ![i] = "empty"]
                 /\ UNCHANGED << jsonCache, httpFetches >>
    /\ UNCHANGED << listing, textCache, fetchResults, onFetchCalls, calls, nonAtaVars >>

\* lines 159-164: in flat(), the flat url has answered
FlatListed ==
    /\ pc = "ata"
    /\ \E i \in Instances :
         /\ flatResults[i] = "flat"
         /\ jsonCache["flat"] \in {"data", "absent"}
         /\ flatResults' = [flatResults EXCEPT ![i] = IF jsonCache["flat"] = "data" THEN "files"
                                                      ELSE "empty"]
    /\ UNCHANGED << listing, textCache, jsonCache, httpFetches, fetchResults, onFetchCalls, calls,
                    nonAtaVars >>

\* lines 232-239: a fetch of a file's url settles
TextSettles ==
    /\ pc = "ata"
    /\ \E f \in Files, o \in HttpOutcomes("text") :
         /\ textCache[f] = "pending"
         /\ textCache' = [textCache EXCEPT ![f] = Settled(o)]
    /\ UNCHANGED << listing, jsonCache, httpFetches, flatResults, fetchResults, onFetchCalls, calls,
                    nonAtaVars >>

\* lines 247-255: a fetch of the resolve url or of the flat url settles
JsonSettles ==
    /\ pc = "ata"
    /\ \E u \in JsonUrls :
       \E o \in HttpOutcomes(u) :
         /\ jsonCache[u] = "pending"
         /\ jsonCache' = [jsonCache EXCEPT ![u] = Settled(o)]
    /\ UNCHANGED << listing, textCache, httpFetches, flatResults, fetchResults, onFetchCalls, calls,
                    nonAtaVars >>

InitAta ==
    /\ listing \in SUBSET Files
    /\ textCache = [f \in Files |-> "none"]
    /\ jsonCache = [u \in JsonUrls |-> "none"]
    /\ httpFetches = [text |-> [f \in Files |-> 0], json |-> [u \in JsonUrls |-> 0]]
    /\ flatResults = [i \in Instances |-> "none"]
    /\ fetchResults = [i \in Instances |-> [f \in Files |-> "none"]]
    /\ onFetchCalls = [i \in Instances |-> [f \in Files |-> 0]]
    /\ calls = << >>
    /\ pc = "ata"
    /\ PosIdle
    /\ AutoIdle
    /\ scriptKind = "absent"
    /\ embeddedCodes = [p \in {Root} |-> << >>]
    /\ entry = "language"
    /\ hasCombine = FALSE
    /\ disabledServicePlugins = {}
    /\ disabledEmbeddedDocumentUris = {}
    /\ disabledAtCall = [plugins |-> {}, uris |-> {}]
    /\ walker = 0
    /\ docs = 0
    /\ yielded = 0
    /\ mappedArg = 0
    /\ pluginIndex = 0
    /\ pending = "none"
    /\ thrown = "none"
    /\ warned = FALSE
    /\ results = << >>
    /\ status = "running"
    /\ returned = NoReturn
    /\ emitted = << >>
    /\ workerCalls = << >>
    /\ transformCalls = NoTransform
    /\ combineCalls = << >>
    /\ paramCalls = [real |-> 0, virtual |-> << >>]
    /\ validCalls = << >>
    /\ fetched = 0
    /\ hostOps = 0
    /\ level = 0
    /\ embeddedFilesByLevel = << >>
    /\ levelResult = << >>

NextAta ==
    \/ FsCall
    \/ FsValid
    \/ FsFlat
    \/ FsRead
    \/ ReadValid
    \/ ReadStat
    \/ ReadText
    \/ FlatResolved
    \/ FlatListed
    \/ TextSettles
    \/ JsonSettles

SpecAta == InitAta /\ [][NextAta]_vars

\* ------------------------------------------------------------------ vocabulary of the properties
Range(seq) == { seq[i] : i \in 1 .. Len(seq) }
NoDuplicates(seq) == \A i, j \in 1 .. Len(seq) : seq[i] = seq[j] => i = j
IndexOf(seq, x) == CHOOSE i \in 1 .. Len(seq) : seq[i] = x
Last(seq) == seq[Len(seq)]
IsChild(codes, p, c) == c \in Range(codes[p])
ParentOf(codes, c) == CHOOSE p \in Nodes(codes) : IsChild(codes, p, c)

RECURSIVE Subtree(_, _)
\* a node and all its descendants
Subtree(codes, n) == {n} \cup UNION { Subtree(codes, c) : c \in Range(codes[n]) }
Descendants(codes, n) == Subtree(codes, n) \ {n}
EnabledNodes == { n \in Nodes(embeddedCodes) : ~Disabled(disabledEmbeddedDocumentUris, SourceId, n) }

\* ------------------------------------------------------------------ C5
\* C5: forEachEmbeddedDocument emits in post-order: no node is emitted before one of its
\* descendants; for two children of a node, everything emitted of the subtree of the one
\* declared first comes before everything emitted of the other's; no node is emitted
\* twice, and once the generator is done every enabled node has been emitted.
C5_PostOrder ==
    pc \in {"walk", "walked", "levels", "levelDone"} =>
        /\ NoDuplicates(emitted)
        /\ \A i, j \in 1 .. Len(emitted) :
             emitted[j] \in Descendants(embeddedCodes, emitted[i]) => j < i
        /\ \A p \in Nodes(embeddedCodes) :
             \A a, b \in 1 .. Len(embeddedCodes[p]) :
               a < b =>
                 \A i, j \in 1 .. Len(emitted) :
                   /\ emitted[i] \in Subtree(embeddedCodes, embeddedCodes[p][a])
                   /\ emitted[j] \in Subtree(embeddedCodes, embeddedCodes[p][b])
                   => i < j
        /\ pc # "walk" => Range(emitted) = EnabledNodes

\* a three-level tree has been walked to the end, leaf first
C5_Witness ==
    /\ pc = "walked"
    /\ \E m, l \in Nodes(embeddedCodes) :
         /\ IsChild(embeddedCodes, Root, m)
         /\ IsChild(embeddedCodes, m, l)
         /\ emitted = << l, m, Root >>

\* ------------------------------------------------------------------ C6
\* C6: forEachEmbeddedDocument never emits a node whose encoded identity is in the
\* disabled set, and it does emit every node that is not disabled itself although one
\* of its ancestors is.
C6_DisabledPerNode ==
    pc \in {"walk", "walked", "levels", "levelDone"} =>
        /\ \A i \in 1 .. Len(emitted) :
             EncodeEmbeddedDocumentUri(SourceId, emitted[i]) \notin disabledEmbeddedDocumentUris
        /\ pc # "walk" =>
             \A a \in Nodes(embeddedCodes) :
               EncodeEmbeddedDocumentUri(SourceId, a) \in disabledEmbeddedDocumentUris =>
                 \A d \in Descendants(embeddedCodes, a) :
                   EncodeEmbeddedDocumentUri(SourceId, d) \notin disabledEmbeddedDocumentUris
                     => d \in Range(emitted)

\* a disabled node was passed over and its enabled child was emitted
C6_Witness ==
    /\ pc = "walked"
    /\ \E a, d \in Nodes(embeddedCodes) :
         /\ IsChild(embeddedCodes, a, d)
         /\ EncodeEmbeddedDocumentUri(SourceId, a) \in disabledEmbeddedDocumentUris
         /\ a \notin Range(emitted)
         /\ d \in Range(emitted)

\* ------------------------------------------------------------------ C7
\* the enabled children of the nodes of `prev`
EnabledChildrenOf(prev) ==
    { c \in Nodes(embeddedCodes) :
        /\ \E i \in 1 .. Len(prev) : IsChild(embeddedCodes, prev[i], c)
        /\ EncodeEmbeddedDocumentUri(SourceId, c) \notin disabledEmbeddedDocumentUris }

\* `lvl` lists exactly the enabled children of the nodes of `prev`, each once, grouped by
\* parent in the order of `prev` and within one parent in declared order
IsConcatOfEnabledChildren(lvl, prev) ==
    /\ Range(lvl) = EnabledChildrenOf(prev)
    /\ NoDuplicates(lvl)
    /\ \A i, j \in 1 .. Len(lvl) :
         i < j =>
           LET pi == ParentOf(embeddedCodes, lvl[i])
               pj == ParentOf(embeddedCodes, lvl[j])
           IN \/ IndexOf(prev, pi) < IndexOf(prev, pj)
              \/ /\ pi = pj
                 /\ IndexOf(embeddedCodes[pi], lvl[i]) < IndexOf(embeddedCodes[pi], lvl[j])

\* C7: level 0 of getEmbeddedFilesByLevel is exactly [root]; every level k > 0 is the
\* concatenation, over the nodes of level k-1 in order, of their enabled children in
\* declared order; the value returned is the level asked for, empty beyond the depth.
C7_Levels ==
    pc \in {"levels", "levelDone"} =>
        /\ embeddedFilesByLevel[1] = << Root >>
        /\ \A k \in 2 .. Len(embeddedFilesByLevel) :
             IsConcatOfEnabledChildren(embeddedFilesByLevel[k], embeddedFilesByLevel[k - 1])
        /\ pc = "levelDone" =>
             /\ Len(embeddedFilesByLevel) = level + 1
             /\ levelResult = embeddedFilesByLevel[level + 1]
             /\ level = 0 => levelResult = << Root >>
             /\ level >= Cardinality(Nodes(embeddedCodes)) => levelResult = << >>

\* level 1 was returned for a root with two children of which one is disabled
C7_Witness ==
    /\ pc = "levelDone"
    /\ level = 1
    /\ Len(embeddedCodes[Root]) = 2
    /\ Len(levelResult) = 1

\* ------------------------------------------------------------------ vocabulary of the dispatch properties
\* the triple whose worker invocation is being awaited or was the latest
Current == << docs, mappedArg, pluginIndex >>
\* the step is a worker invocation
Invokes == workerCalls' # workerCalls
\* the step is the settling of the awaited invocation
Settles == pc \in {"await", "realAwait"} /\ pc' \notin {"await", "realAwait"}
\* the settled invocation is accepted: the worker returned a truthy value and
\* transformResult made a truthy value of it
Accepted == pending = "value" /\ transformCalls' = [at |-> Current, out |-> "value"]
\* the step pushes the transformed result of the settled invocation
Pushes == results' = Append(results, MappedValue(Current))
\* the position of a triple in the order of the walk: the place of its document in the
\* emission order, then its parameter set, then its plugin
Before(s, t) ==
    LET ds == IF s[1] = 0 THEN 0 ELSE IndexOf(emitted, s[1])
        dt == IF t[1] = 0 THEN 0 ELSE IndexOf(emitted, t[1])
    IN \/ ds < dt
       \/ ds = dt /\ s[2] < t[2]
       \/ ds = dt /\ s[2] = t[2] /\ s[3] < t[3]
\* worker invocations were made in the order of the walk, none twice
CallsInOrder ==
    \A i, j \in 1 .. Len(workerCalls) : i < j => Before(workerCalls[i], workerCalls[j])
\* what a completed call returned
ReturnsFirst == returned.kind = "first" /\ returned.value = results[1]
ReturnsNothing == returned.kind = "nothing"

\* ------------------------------------------------------------------ C1
\* what C1 says of every state
C1_State ==
    (scriptKind = "plain" /\ ~hasCombine) =>
        /\ \A i \in 1 .. Len(workerCalls) : workerCalls[i][1] = 0 /\ workerCalls[i][2] = 0
        /\ CallsInOrder
        /\ Len(results) <= 1
        /\ results # << >> =>
             /\ results[1] = MappedValue(Last(workerCalls))
             /\ pc \in {"finish", "done"}
        /\ status = "fulfilled" => IF results # << >> THEN ReturnsFirst ELSE ReturnsNothing

\* what C1 says of every step
C1_Step ==
    (scriptKind = "plain" /\ ~hasCombine) =>
        /\ (pc = "realPlugins" /\ pluginIndex <= NumPlugins
              /\ pluginIndex \notin disabledServicePlugins)
             => workerCalls' = Append(workerCalls, << 0, 0, pluginIndex >>)
        /\ Settles => (Accepted <=> Pushes)
        /\ Settles /\ ~Accepted => results' = results /\ pc' = "realPlugins"

\* C1: on a non-generated document with no combineResult the plugins are invoked in
\* registration order, every enabled plugin reached while there is no result is invoked,
\* a result is pushed exactly when the worker's value and transformResult's value are
\* both accepted, no worker is invoked after the first push, and the call returns that
\* first pushed result (nothing when there is none).
C1_FirstAcceptedWins == []C1_State /\ [][C1_Step]_vars

\* the second plugin's result was returned after the first plugin's was not accepted
C1_Witness ==
    /\ scriptKind = "plain"
    /\ ~hasCombine
    /\ status = "fulfilled"
    /\ workerCalls = << << 0, 0, 1 >>, << 0, 0, 2 >> >>
    /\ returned.value = MappedValue(<< 0, 0, 2 >>)

\* ------------------------------------------------------------------ C8
\* C8: when the script resolver has no SourceScript for the URI the call resolves with
\* nothing, does not reject, and calls none of getRealDocParams, eachVirtualDocParams,
\* worker, transformResult and combineResult and fetches no text buffer or map.
C8_AbsentScript ==
    scriptKind = "absent" =>
        /\ status # "rejected"
        /\ pc \in {"start", "done"}
        /\ pc = "done" => status = "fulfilled" /\ ReturnsNothing
        /\ paramCalls = [real |-> 0, virtual |-> << >>]
        /\ validCalls = << >>
        /\ workerCalls = << >>
        /\ transformCalls = NoTransform
        /\ combineCalls = << >>
        /\ emitted = << >>
        /\ fetched = 0

\* a call for an unknown URI has completed
C8_Witness ==
    /\ scriptKind = "absent"
    /\ pc = "done"
    /\ status = "fulfilled"

\* ------------------------------------------------------------------ C2
\* a document is emitted, a parameter set is yielded
EmitsDoc == emitted' # emitted
YieldsParam == pc = "params" /\ yielded' = yielded + 1
\* an emitted document gets its eachVirtualDocParams generator, a yielded parameter set
\* its turn of the plugin loop
OffersDoc ==
    /\ paramCalls'.virtual = Append(paramCalls.virtual, Last(emitted'))
    /\ pc' = "params"
OffersParam == pc' = "plugins" /\ pluginIndex' = 1 /\ mappedArg' = yielded'

\* what C2 says of every state
C2_State ==
    (scriptKind = "generated" /\ ~hasCombine) =>
        /\ NoDuplicates(emitted)
        /\ \A i \in 1 .. Len(workerCalls) : workerCalls[i][1] \in Range(emitted)
        /\ CallsInOrder
        /\ Len(results) <= 1
        /\ results # << >> =>
             /\ results[1] = MappedValue(Last(workerCalls))
             /\ transformCalls = [at |-> Last(workerCalls), out |-> "value"]
             /\ pc # "await"
        /\ status = "fulfilled" => IF results # << >> THEN ReturnsFirst ELSE ReturnsNothing

\* what C2 says of every step
C2_Step ==
    (scriptKind = "generated" /\ ~hasCombine) =>
        /\ (EmitsDoc /\ results = << >>) => OffersDoc
        /\ (YieldsParam /\ results = << >>) => OffersParam
        /\ (pc = "plugins" /\ pluginIndex <= NumPlugins /\ results = << >>
              /\ pluginIndex \notin disabledServicePlugins)
             => workerCalls' = Append(workerCalls, Current)
        /\ Settles => (Accepted <=> Pushes)
        /\ results # << >> => UNCHANGED << workerCalls, transformCalls, results >>

\* C2: on a generated document with no combineResult the triples are tried in the order
\* of the walk (emission order of the documents, then yield order of the parameter sets,
\* then registration order of the plugins), none is passed over while there is no
\* result, a result is pushed exactly when the triple is accepted, after the first push
\* neither worker nor transformResult is called again, and the call returns that first
\* pushed result (nothing when there is none).
C2_FirstAcceptedTriple == []C2_State /\ [][C2_Step]_vars

\* the call returned the result of the last triple of a two-document tree after every
\* earlier triple was tried
C2_Witness ==
    /\ scriptKind = "generated"
    /\ ~hasCombine
    /\ status = "fulfilled"
    /\ emitted = << 2, 1 >>
    /\ Len(workerCalls) = 2 * MaxParams * NumPlugins
    /\ returned.value = MappedValue(<< 1, MaxParams, NumPlugins >>)

\* ------------------------------------------------------------------ C3
\* what C3 says of every state
C3_State ==
    hasCombine =>
        /\ \A i \in 1 .. Len(workerCalls) :
             workerCalls[i][1] = 0 \/ workerCalls[i][1] \in Range(emitted)
        /\ CallsInOrder
        /\ \A i \in 1 .. Len(results) :
             /\ results[i].kind = "mapped"
             /\ results[i].at \in Range(workerCalls)
        /\ \A i, j \in 1 .. Len(results) : i < j => Before(results[i].at, results[j].at)
        /\ status # "fulfilled" => combineCalls = << >>
        /\ status = "fulfilled" =>
             IF results # << >>
             THEN /\ combineCalls = << results >>
                  /\ returned.kind = "combined"
                  /\ returned.results = results
             ELSE /\ combineCalls = << >>
                  /\ ReturnsNothing

\* what C3 says of every step
C3_Step ==
    hasCombine =>
        /\ EmitsDoc => OffersDoc
        /\ YieldsParam => OffersParam
        /\ (pc \in {"plugins", "realPlugins"} /\ pluginIndex <= NumPlugins
              /\ pluginIndex \notin disabledServicePlugins)
             => workerCalls' = Append(workerCalls, Current)
        /\ Settles =>
             /\ Accepted <=> Pushes
             /\ ~Accepted => results' = results
             /\ pc' \in {"plugins", "realPlugins"}
             /\ pluginIndex' = pluginIndex + 1

\* C3: with a combineResult every emitted document gets its generator, every yielded
\* parameter set its plugin loop and every enabled plugin reached is invoked, whether
\* or not results exist already; results are pushed in the order they are accepted;
\* combineResult is called once, with all of them, when the call completes with at
\* least one, and never otherwise, when the call returns nothing.
C3_CombineAll == []C3_State /\ [][C3_Step]_vars

\* the first and the last triple of a two-document tree were accepted, every triple
\* between them was tried, and combineResult got both results
C3_Witness ==
    /\ hasCombine
    /\ scriptKind = "generated"
    /\ status = "fulfilled"
    /\ Len(workerCalls) = 2 * MaxParams * NumPlugins
    /\ results = << MappedValue(workerCalls[1]), MappedValue(Last(workerCalls)) >>
    /\ combineCalls = << results >>

\* ------------------------------------------------------------------ C4
\* what C4 says of every state
C4_State == status # "rejected"

\* what C4 says of every step
C4_Step ==
    (Settles /\ pending \in {"throw", "reject"}) =>
        /\ pc' = (IF pc = "await" THEN "plugins" ELSE "realPlugins")
        /\ pluginIndex' = pluginIndex + 1
        /\ status' = "running"
        /\ warned'
        /\ UNCHANGED << results, transformCalls, workerCalls, combineCalls, paramCalls,
                        validCalls, emitted, fetched, walker, docs, yielded, mappedArg,
                        returned, configVars, hostVars >>

\* C4: a worker invocation that throws or whose promise rejects leaves the call where a
\* worker returning nothing leaves it: nothing is transformed or pushed, the loop goes
\* on with the next plugin, and the call is never rejected.
C4_FailureIsolated == []C4_State /\ [][C4_Step]_vars

\* after the first plugin's failure was caught the second plugin is invoked for the same document and parameter set
C4_Witness ==
    /\ warned
    /\ pc \in {"await", "realAwait"}
    /\ pluginIndex = 2
    /\ << docs, mappedArg, 1 >> \in Range(workerCalls)
    /\ status = "running"

\* ------------------------------------------------------------------ C9
\* C9: documentFeatureWorker evaluates valid at most once for an emitted document,
\* offers the document to the plugin loop only if it held, and invokes worker at most
\* once for a document and a plugin.
C9_ValidOnce ==
    (entry = "document" /\ scriptKind = "generated") =>
        /\ \A i, j \in 1 .. Len(workerCalls) :
             (workerCalls[i][1] = workerCalls[j][1] /\ workerCalls[i][3] = workerCalls[j][3])
                => i = j
        /\ \A i \in 1 .. Len(workerCalls) :
             /\ << workerCalls[i][1], TRUE >> \in Range(validCalls)
             /\ << workerCalls[i][1], FALSE >> \notin Range(validCalls)
             /\ workerCalls[i][1] \in Range(emitted)
        /\ \A i, j \in 1 .. Len(validCalls) : validCalls[i][1] = validCalls[j][1] => i = j
        /\ \A i \in 1 .. Len(validCalls) : validCalls[i][1] \in Range(emitted)
        /\ NoDuplicates(paramCalls.virtual)
        /\ NoDuplicates(emitted)

\* valid failed for the embedded child, held for the root, and worker was invoked for
\* the root only
C9_Witness ==
    /\ entry = "document"
    /\ scriptKind = "generated"
    /\ validCalls = << << 2, FALSE >>, << 1, TRUE >> >>
    /\ workerCalls # << >>
    /\ status = "fulfilled"

\* ------------------------------------------------------------------ C10
\* what C10 says of every state
C10_State ==
    \A i, j \in 1 .. Len(workerCalls) :
      (i < j /\ workerCalls[i][1] = workerCalls[j][1] /\ workerCalls[i][2] = workerCalls[j][2])
         => workerCalls[i][3] < workerCalls[j][3]

\* what C10 says of every step
C10_Step ==
    Invokes =>
        /\ workerCalls' = Append(workerCalls, Current)
        /\ pluginIndex \in Plugins
        /\ pluginIndex \notin disabledServicePlugins
        /\ UNCHANGED << disabledServicePlugins, pluginIndex >>

\* C10: in both paths a worker invocation is made for the plugin whose turn it is, that
\* plugin is not in disabledServicePlugins at that moment, and the invocations made for
\* one document and parameter set are in registration order.
C10_DisabledPluginsSkipped == []C10_State /\ [][C10_Step]_vars

\* the first plugin was disabled by the host while its own invocation was awaited; on
\* the next parameter set it is passed over and the second plugin is invoked
C10_Witness ==
    /\ pc = "await"
    /\ pluginIndex = 2
    /\ 1 \in disabledServicePlugins
    /\ hostOps = 1
    /\ << docs, mappedArg, 1 >> \notin Range(workerCalls)
    /\ \E i \in 1 .. Len(workerCalls) : workerCalls[i][3] = 1

\* ------------------------------------------------------------------ C11
\* the value `await safeCall(...)` completes with for the awaited invocation
Awaited == safeCall(pending).value
\* the step calls transformResult for the settled invocation
Transforms == transformCalls' # transformCalls /\ transformCalls'.at = Current

\* C11: a settled worker value is passed over exactly when it is null or undefined; any
\* other value, a falsy one such as "", 0 or false included, is given to transformResult,
\* and what transformResult returns is pushed unless it is undefined.
C11_SkipsOnlyNullish ==
    [][Settles =>
         /\ Awaited.kind \in {"null", "undefined"} => UNCHANGED << transformCalls, results >>
         /\ Awaited.kind \notin {"null", "undefined"} =>
              /\ Transforms
              /\ transformCalls'.out # "undefined" => Len(results') = Len(results) + 1
              /\ transformCalls'.out = "undefined" => results' = results]_vars

\* ------------------------------------------------------------------ C12
\* C12: on a generated document with no combineResult, once a result has been pushed no
\* further parameter set is pulled from the current eachVirtualDocParams generator,
\* eachVirtualDocParams is not called for another document, and no further document is
\* pulled from the walker, so that no further text buffer or map is fetched.
C12_NothingPulledAfterFirst ==
    [][(scriptKind = "generated" /\ ~hasCombine /\ results # << >>)
          => UNCHANGED << yielded, paramCalls, emitted, fetched >>]_vars

\* ------------------------------------------------------------------ C13
\* what C13 says of every state: an invocation is outstanding only while the call is
\* suspended on it
C13_State == pending # "none" <=> pc \in {"await", "realAwait"}

\* what C13 says of every step
C13_Step ==
    /\ Invokes =>
         /\ pending = "none"
         /\ pending' # "none"
         /\ Len(workerCalls') = Len(workerCalls) + 1
         /\ pc' \in {"await", "realAwait"}
    /\ pending # "none" =>
         /\ ~Invokes
         /\ UNCHANGED << docs, mappedArg, walker, yielded, emitted >>
         /\ Settles \/ UNCHANGED << pc, pending, pluginIndex, results >>
    /\ Settles => pending' = "none"

\* C13: at most one worker invocation of a call is outstanding at any time: an invocation
\* starts only when none is outstanding, the call stays suspended on it, advancing no
\* loop, until its value has settled, whether the worker returned, threw or returned a
\* promise that fulfils or rejects.
C13_OnePending == []C13_State /\ [][C13_Step]_vars

\* the second invocation of a call is outstanding, a promise that will reject, after the
\* first has settled
C13_Witness ==
    /\ pc = "await"
    /\ pending = "reject"
    /\ Len(workerCalls) = 2
    /\ workerCalls[1] # workerCalls[2]

\* ------------------------------------------------------------------ C14
\* the text the queried point lies in and the text the answer lies in
OriginDocument == IF query.toSource THEN query.embeddedDocument ELSE query.sourceDocument
TargetDocument == IF query.toSource THEN query.sourceDocument ELSE query.embeddedDocument
OriginStart(m) == IF query.toSource THEN m.generated ELSE m.source
TargetStart(m) == IF query.toSource THEN m.source ELSE m.generated
QueriedOffset == offsetAt(OriginDocument, query.position)
\* the mappings that pass the filter and whose span holds the queried point
Hits ==
    { i \in 1 .. Len(query.map) :
        /\ Passes(query.filter, query.map[i])
        /\ OriginStart(query.map[i]) <= QueriedOffset
        /\ QueriedOffset <= OriginStart(query.map[i]) + query.map[i].length }
\* the k-th of them in the order of the map
Hit(k) == CHOOSE i \in Hits : Cardinality({ j \in Hits : j < i }) = k - 1
\* the queried point is where one passing span ends and the next passing span begins
OnBoundary ==
    \E i, j \in 1 .. Len(query.map) :
      /\ i # j
      /\ Passes(query.filter, query.map[i]) /\ Passes(query.filter, query.map[j])
      /\ OriginStart(query.map[i]) + query.map[i].length = QueriedOffset
      /\ OriginStart(query.map[j]) = QueriedOffset

\* C14: getSourcePositions and getGeneratedPositions yield one position for every mapping
\* that passes the filter and holds the queried point, in the order of the mappings and
\* with repeats kept: two for a point on the boundary of two passing spans, none when no
\* mapping passes the filter.
C14_OnePositionPerOffset ==
    pc \in {"positions", "exhausted"} =>
        /\ Len(positions) <= Cardinality(Hits)
        /\ pc = "exhausted" => Len(positions) = Cardinality(Hits)
        /\ \A k \in 1 .. Len(positions) :
             positions[k] = positionAt(TargetDocument,
                              TargetStart(query.map[Hit(k)])
                                + (QueriedOffset - OriginStart(query.map[Hit(k)])))
        /\ (pc = "exhausted" /\ OnBoundary) => Len(positions) >= 2
        /\ (\A i \in 1 .. Len(query.map) : ~Passes(query.filter, query.map[i]))
             => positions = << >>

\* a point on the boundary of two passing spans that map it to the same offset of the
\* source has yielded that position twice
C14_Witness ==
    /\ pc = "exhausted"
    /\ query.toSource
    /\ OnBoundary
    /\ Len(positions) = 2
    /\ positions[1] = positions[2]
    /\ positions[1].line = 1

\* ------------------------------------------------------------------ C15
\* documents given to the plugin loop: the real document, or those the walker emitted
DocumentsOffered == IF scriptKind = "plain" THEN 1 ELSE Len(emitted)
\* parameter sets one document has at most: getRealDocParams() gives one
ParamsPerDocument ==
    IF scriptKind = "plain" \/ entry = "document" THEN 1 ELSE MaxParams
\* plugins that were enabled at some moment of the call
PluginsEnabled ==
    IF hostOps = 0 THEN Cardinality(Plugins \ disabledServicePlugins) ELSE NumPlugins

\* what C15 says of every state
C15_State ==
    /\ Len(workerCalls) <= DocumentsOffered * ParamsPerDocument * PluginsEnabled
    /\ NoDuplicates(workerCalls)
    /\ Len(embeddedFilesByLevel) <= level + 1

\* C15: every languageFeatureWorker call completes, having made at most (documents
\* offered x parameter sets x enabled plugins) worker invocations, no triple twice, and
\* every getEmbeddedFilesByLevel call returns, having built no level beyond the one asked.
C15_Terminates ==
    /\ []C15_State
    /\ <>(pc \in {"done", "levelDone"})
    /\ [][(pc \in {"done", "levelDone"}) => vars' = vars]_vars

\* a call has completed after the most invocations a tree of two documents allows
C15_Witness ==
    /\ pc = "done"
    /\ status = "fulfilled"
    /\ Len(emitted) = MaxDocs
    /\ Len(workerCalls) = MaxDocs * MaxParams * NumPlugins

\* getEmbeddedFilesByLevel has returned a level below the leaves of the tree
C15_WitnessLevel ==
    /\ pc = "levelDone"
    /\ level = MaxLevel
    /\ levelResult = << >>

\* ------------------------------------------------------------------ C16
\* the step invokes a plugin's provideAutoInsertionEdit
InvokesProvider == provideCalls' # provideCalls

\* what C16 says of every state
C16_State ==
    /\ \A i \in 1 .. Len(provideCalls) : provideCalls[i] \in Range(workerCalls)
    /\ (status = "fulfilled" /\ results # << >>) => ReturnsFirst
    /\ (status = "fulfilled" /\ results = << >>) => ReturnsNothing
    /\ status # "rejected"

\* what C16 says of every step
C16_Step ==
    /\ token => token'
    /\ token => ~InvokesProvider
    /\ (token /\ Invokes) => pending' = "undefined"
    /\ (Settles /\ pending = "undefined") => UNCHANGED << results, transformCalls >>
    /\ (token /\ results = << >>) =>
         /\ EmitsDoc => OffersDoc
         /\ YieldsParam => OffersParam
         /\ (pc \in {"plugins", "realPlugins"} /\ pluginIndex <= NumPlugins
               /\ pluginIndex \notin disabledServicePlugins)
              => workerCalls' = Append(workerCalls, Current)
    /\ (~token /\ Invokes /\ pluginIndex \in providers)
         => provideCalls' = Append(provideCalls, Current)

\* C16: once the token is cancelled it stays cancelled, no provideAutoInsertionEdit is
\* invoked and every worker invocation started from then on returns undefined, which is
\* passed over; the dispatcher nevertheless offers every remaining document and
\* parameter set and calls worker for every remaining enabled plugin; whatever result
\* was pushed is returned, cancelled or not.
C16_CancelledWorkerIdles == []C16_State /\ [][C16_Step]_vars

\* the token was cancelled while the first provideAutoInsertionEdit was awaited; worker
\* was still called for every other triple of a two-document tree, and the call returned
\* the result of that first invocation
C16_WitnessReturned ==
    /\ pc = "done"
    /\ token
    /\ providers = Plugins
    /\ Len(emitted) = MaxDocs
    /\ Len(provideCalls) = 1
    /\ Len(workerCalls) = 1
    /\ returned.value = MappedValue(provideCalls[1])

\* the token was cancelled while the first provideAutoInsertionEdit, which gave nothing,
\* was awaited; worker was still called for every other triple and the call returned
\* nothing
C16_Witness ==
    /\ pc = "done"
    /\ token
    /\ providers = Plugins
    /\ Len(provideCalls) = 1
    /\ Len(workerCalls) = MaxDocs * MaxParams * NumPlugins
    /\ ReturnsNothing

\* ------------------------------------------------------------------ C17
\* the nodes of the levels getEmbeddedFilesByLevel has built
InLevels == UNION { Range(embeddedFilesByLevel[k]) : k \in 1 .. Len(embeddedFilesByLevel) }
\* the call has built every level the tree can have
AllLevelsBuilt == pc = "levelDone" /\ level >= Cardinality(Nodes(embeddedCodes)) - 1
\* the nodes between the root and a node
Between(n) == { a \in Nodes(embeddedCodes) \ {Root} : n \in Descendants(embeddedCodes, a) }
\* a node lies beneath a disabled node other than the root
BeneathDisabled(n) ==
    \E a \in Between(n) : Disabled(disabledEmbeddedDocumentUris, SourceId, a)

\* C17 as claimed: every node the walker emits is in some level of getEmbeddedFilesByLevel
\* for the same tree and disabled set, the enabled nodes beneath a disabled node too.
C17_EmittedInSomeLevel ==
    AllLevelsBuilt => Range(emitted) \subseteq InLevels

\* C17 as amended: an emitted node is in some level exactly when no node between the
\* root and it is disabled; an enabled node beneath a disabled node is emitted by the
\* walker and is in no level.
C17_EmittedInLevelUnlessBeneathDisabled ==
    AllLevelsBuilt =>
        /\ \A n \in Range(emitted) : n \in InLevels <=> ~BeneathDisabled(n)
        /\ \A n \in EnabledNodes : BeneathDisabled(n) => n \in Range(emitted) /\ n \notin InLevels

\* of a chain of three nodes with the middle one disabled the walker emitted the leaf and
\* the root; the root is in a level, the leaf in none
C17_Witness ==
    /\ AllLevelsBuilt
    /\ emitted = << 3, 1 >>
    /\ BeneathDisabled(3)
    /\ InLevels = {Root}

\* ------------------------------------------------------------------ C18
\* the order in which the walker reaches the nodes of the tree
WalkOrder == forEachVisit(embeddedCodes, Root)
DisabledNow(n) == Disabled(disabledEmbeddedDocumentUris, SourceId, n)

\* what C18 says of every step
C18_Step ==
    /\ Invokes => pluginIndex \notin disabledServicePlugins
    /\ (pc \in {"plugins", "realPlugins"} /\ pluginIndex <= NumPlugins
          /\ pluginIndex \notin disabledServicePlugins /\ ~ShortCircuit(results, hasCombine))
         => workerCalls' = Append(workerCalls, Current)
    /\ (pc \in {"plugins", "realPlugins"} /\ pluginIndex <= NumPlugins
          /\ pluginIndex \in disabledServicePlugins)
         => ~Invokes /\ pluginIndex' = pluginIndex + 1
    /\ pc = "docs" =>
         /\ EmitsDoc =>
              /\ \A j \in (walker + 1) .. (walker' - 1) : DisabledNow(WalkOrder[j])
              /\ emitted' = Append(emitted, WalkOrder[walker'])
              /\ ~DisabledNow(WalkOrder[walker'])
         /\ ~EmitsDoc =>
              /\ \A j \in (walker + 1) .. Len(WalkOrder) : DisabledNow(WalkOrder[j])
              /\ walker' = Len(WalkOrder)

\* what C18 says of every state: nothing of the call remembers the sets as they were
C18_State ==
    /\ \A i \in 1 .. Len(emitted) : emitted[i] \in Range(SubSeq(WalkOrder, 1, walker))
    /\ hostOps = 0 => disabledAtCall = [plugins |-> disabledServicePlugins,
                                         uris |-> disabledEmbeddedDocumentUris]

\* C18: each turn of the plugin loop and each pull of the walker reads the disabled set
\* as it is then: a plugin (an embedded document) the host disabled while an invocation
\* was awaited is not invoked (not emitted) when a later turn reaches it, and one the
\* host enabled meanwhile is invoked (emitted) when a later turn reaches it.
C18_DisabledSetsReadLazily == []C18_State /\ [][C18_Step]_vars

\* the root was enabled when the call was made and was disabled by the host while the
\* invocation for its child was awaited: the call completed without emitting the root
C18_Witness ==
    /\ pc = "done"
    /\ emitted = << 2 >>
    /\ workerCalls # << >>
    /\ ~Disabled(disabledAtCall.uris, SourceId, Root)
    /\ DisabledNow(Root)

\* a plugin that was disabled when the
\* call was made and was enabled by the host meanwhile is being invoked
C18_WitnessEnabled ==
    /\ pc = "await"
    /\ pluginIndex \in disabledAtCall.plugins
    /\ pluginIndex \notin disabledServicePlugins

\* ------------------------------------------------------------------ C19
\* the step is one in which a callback throws
Throws == thrown = "none" /\ thrown' # "none"

\* what C19 says of every state
C19_State ==
    /\ status = "rejected" <=> thrown # "none"
    /\ thrown # "none" =>
         /\ pc = "done"
         /\ pending = "none"
         /\ returned = NoReturn
    /\ thrown \in {"none", "transformResult", "eachVirtualDocParams", "combineResult"}

\* what C19 says of every step
C19_Step ==
    /\ Throws =>
         /\ ~Invokes
         /\ results' = results
         /\ status' = "rejected"
    /\ thrown # "none" => vars' = vars
    /\ (Settles /\ pending \in {"throw", "reject"}) => ~Throws /\ status' = "running"

\* C19: an exception of transformResult, of a pull of eachVirtualDocParams or of
\* combineResult rejects the call at once: worker is not invoked again, nothing more is
\* pushed and the results pushed so far are not returned; a failure of worker itself
\* never rejects the call.
C19_CallbackThrowRejects == []C19_State /\ [][C19_Step]_vars

\* with a combineResult, a first result was pushed and transformResult threw for the
\* next value: the call is rejected and the pushed result is not returned
C19_Witness ==
    /\ thrown = "transformResult"
    /\ status = "rejected"
    /\ Len(results) = 1
    /\ Len(workerCalls) = 2
    /\ transformCalls = [at |-> workerCalls[2], out |-> "throw"]

\* ------------------------------------------------------------------ C20
\* the fetch cached for a url has failed: network error or a status other than 200
Failed(promise) == promise = "absent"

\* the fetch cached for a url has settled
SettledFetch(promise) == promise \in {"data", "no version", "absent"}

\* the flat listing of the package, as file system i has it, reports f as a file
ListedAsFile(i, f) ==
    /\ flatResults[i] = "files"
    /\ jsonCache["flat"] = "data"
    /\ f \in listing

C20_State ==
    /\ \A f \in Files : httpFetches.text[f] <= 1
    /\ \A u \in JsonUrls : httpFetches.json[u] <= 1
    /\ \A i \in Instances, f \in Files :
         /\ onFetchCalls[i][f] <= 1
         /\ onFetchCalls[i][f] > 0 => ListedAsFile(i, f) /\ textCache[f] = "data"

C20_Step ==
    /\ \A f \in Files :
         /\ textCache[f] # "none" => httpFetches'.text[f] = httpFetches.text[f]
         /\ SettledFetch(textCache[f]) => textCache'[f] = textCache[f]
         /\ Failed(textCache[f]) => Failed(textCache'[f])
    /\ \A u \in JsonUrls :
         /\ jsonCache[u] # "none" => httpFetches'.json[u] = httpFetches.json[u]
         /\ SettledFetch(jsonCache[u]) => jsonCache'[u] = jsonCache[u]
         /\ Failed(jsonCache[u]) => Failed(jsonCache'[u])

\* C20: in the jsDelivr file system, whatever the interleaving of stat, readFile and
\* readDirectory calls, at most one fetch is issued per url, a failed fetch stays cached
\* as absent and is not issued again, and a file system calls onFetch at most once per
\* path and only for a path its flat listing reports as a file
C20_OneFetchPerUrl == []C20_State /\ [][C20_Step]_vars

\* two readFile calls of one path on one file system have both answered with the text:
\* one fetch of each url, one onFetch
C20_Witness ==
    /\ Len(calls) = 2
    /\ \A c \in 1 .. 2 : calls[c].op = "readFile" /\ calls[c].at = "done" /\ calls[c].result = "text"
    /\ calls[1].fs = calls[2].fs
    /\ calls[1].file = calls[2].file
    /\ httpFetches.text[calls[1].file] = 1
    /\ httpFetches.json["resolve"] = 1
    /\ httpFetches.json["flat"] = 1
    /\ onFetchCalls[calls[1].fs][calls[1].file] = 1

\* two readFile calls of one path on two file systems have both answered undefined after
\* the one fetch of the path's url failed
C20_WitnessFailed ==
    /\ Len(calls) = 2
    /\ \A c \in 1 .. 2 : calls[c].op = "readFile" /\ calls[c].at = "done"
    /\ \A c \in 1 .. 2 : calls[c].result = "undefined"
    /\ calls[1].fs # calls[2].fs
    /\ calls[1].file = calls[2].file
    /\ calls[1].file # Outside
    /\ Failed(textCache[calls[1].file])
    /\ httpFetches.text[calls[1].file] = 1
    /\ \A i \in Instances, f \in Files : onFetchCalls[i][f] = 0

====
